---- MODULE Spec2Model ----
(***************************************************************************)
(* Model of src/src/server/scraper/http_scraper.py: the HTTP scraper       *)
(* (HttpScraper.scrape, _is_bot_blocked, _extract_items), the persistent   *)
(* worker loop (serve) and the single-request command line (main).         *)
(*                                                                         *)
(* Values decoded from JSON are tagged records [t |-> <type>, v |-> ...].  *)
(* Strings whose characters matter (response bodies, element texts and     *)
(* attribute values) are sequences of one-character strings; strings that  *)
(* are only compared or tested for emptiness (urls, selectors, keys) are   *)
(* TLA+ strings.  A dict is a function from its keys to values; the order  *)
(* of its keys is not modelled.                                            *)
(***************************************************************************)
EXTENDS Integers, Sequences, FiniteSets, TLC

\* ------------------------------------------------------------------ bounds
MaxLines == 2          \* lines the persistent loop reads in one run
MaxCards == 3          \* product cards in a fetched document

\* ------------------------------------------------------- program constants
TIMEOUT == 10            \* seconds, passed to session.get
MinBodyLen == 500        \* len(response.text) < 500 is treated as blocked
DefaultTargetCount == 10 \* request.get('targetCount', 10)

\* ------------------------------------------------------------ Python values
PyNone == [t |-> "None"]
PyStr(s) == [t |-> "str", v |-> s]
PyInt(n) == [t |-> "int", v |-> n]
PyDict(f) == [t |-> "dict", v |-> f]
PyList(s) == [t |-> "list", v |-> s]

EmptyDict == PyDict(<<>>)

\* bool(x) as Python evaluates it in `not x`, `a or b`, `if x`
Truthy(x) ==
    CASE x.t = "None" -> FALSE
      [] x.t = "str"  -> x.v # ""
      [] x.t = "int"  -> x.v # 0
      [] x.t = "dict" -> DOMAIN x.v # {}
      [] x.t = "list" -> Len(x.v) > 0

\* d.get(k, default) on a dict payload
DictGet(d, k, default) == IF k \in DOMAIN d THEN d[k] ELSE default

\* ------------------------------------------------------------- text helpers
IsSpace(c) == c \in {" ", "\n", "\t"}

RECURSIVE LStrip(_)
LStrip(s) == IF Len(s) = 0 THEN s
             ELSE IF IsSpace(Head(s)) THEN LStrip(Tail(s)) ELSE s

RECURSIVE RStrip(_)
RStrip(s) == IF Len(s) = 0 THEN s
             ELSE IF IsSpace(s[Len(s)]) THEN RStrip(SubSeq(s, 1, Len(s) - 1)) ELSE s

\* str.strip()
Strip(s) == RStrip(LStrip(s))

UpperChars == <<"A","B","C","D","E","F","G","H","I","J","K","L","M",
                "N","O","P","Q","R","S","T","U","V","W","X","Y","Z">>
LowerChars == <<"a","b","c","d","e","f","g","h","i","j","k","l","m",
                "n","o","p","q","r","s","t","u","v","w","x","y","z">>

UpperSet == {UpperChars[i] : i \in 1..26}

LowerChar(c) == IF c \in UpperSet
                THEN LowerChars[CHOOSE i \in 1..26 : UpperChars[i] = c]
                ELSE c

\* str.lower()
Lower(s) == [i \in 1..Len(s) |-> LowerChar(s[i])]

\* `needle in text` on strings
Contains(needle, text) ==
    \E i \in 1..(Len(text) - Len(needle) + 1) :
        \A j \in 1..Len(needle) : text[i + j - 1] = needle[j]

\* ------------------------------------------------------------ block detector
bot_indicators == <<
    <<"c","a","p","t","c","h","a">>,
    <<"c","l","o","u","d","f","l","a","r","e">>,
    <<"a","c","c","e","s","s"," ","d","e","n","i","e","d">>,
    <<"r","o","b","o","t"," ","c","h","e","c","k">>,
    <<"p","l","e","a","s","e"," ","v","e","r","i","f","y"," ",
      "y","o","u"," ","a","r","e"," ","h","u","m","a","n">>,
    <<"e","n","a","b","l","e"," ","j","a","v","a","s","c","r","i","p","t">>,
    <<"b","r","o","w","s","e","r"," ","c","h","e","c","k">>,
    <<"d","d","o","s"," ","p","r","o","t","e","c","t","i","o","n">> >>

\* is_bot_blocked without the lower-casing of the body
is_bot_blocked_CaseSensitive(text) ==
    IF \E k \in 1..Len(bot_indicators) : Contains(bot_indicators[k], text)
    THEN TRUE
    ELSE IF Len(text) < MinBodyLen THEN TRUE ELSE FALSE

\* HttpScraper._is_bot_blocked(response), on response.text
is_bot_blocked(text) ==
    LET text_lower == Lower(text)
    IN  IF \E k \in 1..Len(bot_indicators) : Contains(bot_indicators[k], text_lower)
        THEN TRUE
        ELSE IF Len(text) < MinBodyLen THEN TRUE ELSE FALSE

\* ------------------------------------------------------------ parsed document
\* The parsed document (BeautifulSoup) is a sequence of top-level nodes in
\* document order.  A node records the CSS selectors it matches, its text, its
\* attributes, its serialised markup and its descendants (kids), in order.
\* CSS selectors the selector engine rejects with a syntax error
BadSelectors == {"div["}

\* every node of the document in document order
RECURSIVE AllNodes(_)
AllNodes(nodes) ==
    IF Len(nodes) = 0 THEN <<>>
    ELSE <<Head(nodes)>> \o AllNodes(Head(nodes).kids) \o AllNodes(Tail(nodes))

\* does the selector engine raise on this selector value
SelectRaises(sel) == sel.t # "str" \/ sel.v \in BadSelectors

\* soup.select(sel), for a selector the engine accepts
Select(soup, sel) ==
    LET Matches(n) == sel.v \in n.matches
    IN  SelectSeq(AllNodes(soup), Matches)

\* container.select_one(sel): the first descendant that matches, as a sequence
\* of one element, or the empty sequence for None
SelectOne(container, sel) ==
    LET Matches(n) == sel.v \in n.matches
        hits == SelectSeq(AllNodes(container.kids), Matches)
    IN  IF Len(hits) = 0 THEN <<>> ELSE <<Head(hits)>>

\* ------------------------------------------------------------- item extractor
ContainerKeys == {"productContainer", "container", "product_container"}

\* Python's `a or b`
PyOr(a, b) == IF Truthy(a) THEN a ELSE b

\* the (sel, attr) pair of one selectors entry; skip = the `continue` branches
FieldSpec(selector) ==
    LET sel  == IF selector.t = "dict" THEN DictGet(selector.v, "selector", PyStr(""))
                ELSE selector
        attr == IF selector.t = "dict" THEN DictGet(selector.v, "attribute", PyStr("text"))
                ELSE PyStr("text")
    IN  [skip |-> selector.t \notin {"dict", "str"} \/ ~Truthy(sel),
         sel  |-> sel,
         attr |-> attr]

\* the value stored in item[field] for a matched element
FieldValue(element, attr) ==
    IF attr.t = "str" /\ attr.v \in {"text", "innerText"} THEN Strip(element.text)
    ELSE IF attr.t = "str" /\ attr.v = "href" THEN DictGet(element.attrs, "href", <<>>)
    ELSE IF attr.t = "str" /\ attr.v = "src" THEN DictGet(element.attrs, "src", <<>>)
    ELSE IF attr.t = "str" /\ attr.v = "innerHTML" THEN element.html
    ELSE IF attr.t = "str" THEN DictGet(element.attrs, attr.v, <<>>)
    ELSE <<>>

\* the item built from one container (lines 167-201)
BuildItem(container, selectors) ==
    LET fields == {f \in DOMAIN selectors \ ContainerKeys :
                      /\ ~FieldSpec(selectors[f]).skip
                      /\ Len(SelectOne(container, FieldSpec(selectors[f]).sel)) > 0}
    IN  [f \in fields |->
            FieldValue(Head(SelectOne(container, FieldSpec(selectors[f]).sel)),
                       FieldSpec(selectors[f]).attr)]

\* does building an item raise: a field selector the engine rejects, or an
\* unhashable attribute name
BuildItemRaises(container, selectors) ==
    \E f \in DOMAIN selectors \ ContainerKeys :
        /\ ~FieldSpec(selectors[f]).skip
        /\ \/ SelectRaises(FieldSpec(selectors[f]).sel)
           \/ /\ Len(SelectOne(container, FieldSpec(selectors[f]).sel)) > 0
              /\ FieldSpec(selectors[f]).attr.t \in {"dict", "list"}

\* `if item and any(v for v in item.values() if v)`
Meaningful(item) == DOMAIN item # {} /\ \E f \in DOMAIN item : Len(item[f]) > 0

RECURSIVE CollectItems(_, _)
CollectItems(containers, selectors) ==
    IF Len(containers) = 0 THEN <<>>
    ELSE LET item == BuildItem(Head(containers), selectors)
         IN  (IF Meaningful(item) THEN <<item>> ELSE <<>>)
             \o CollectItems(Tail(containers), selectors)

\* alias lookup that unwraps each alias before choosing among them
ContainerSel_UnwrapBeforeOr(selectors) ==
    LET Unwrapped(k) ==
            LET x == DictGet(selectors, k, PyNone)
            IN  IF x.t = "dict" THEN DictGet(x.v, "selector", PyStr("")) ELSE x
    IN  PyOr(PyOr(Unwrapped("productContainer"), Unwrapped("container")),
             Unwrapped("product_container"))

\* the container selector after alias lookup and unwrapping (lines 148-159)
ContainerSel(selectors) ==
    LET first == PyOr(PyOr(DictGet(selectors, "productContainer", PyNone),
                           DictGet(selectors, "container", PyNone)),
                      DictGet(selectors, "product_container", PyNone))
    IN  IF ~Truthy(first) THEN first
        ELSE IF first.t = "dict" THEN DictGet(first.v, "selector", PyStr(""))
        ELSE first

\* _extract_items without the test of the unwrapped container selector
extract_items_NoSecondTest(soup, selectors) ==
    IF selectors.t # "dict" THEN [raised |-> TRUE, items |-> <<>>]
    ELSE LET first == PyOr(PyOr(DictGet(selectors.v, "productContainer", PyNone),
                                DictGet(selectors.v, "container", PyNone)),
                           DictGet(selectors.v, "product_container", PyNone))
             container_sel == ContainerSel(selectors.v)
         IN  IF ~Truthy(first) THEN [raised |-> FALSE, items |-> <<>>]
             ELSE IF ~Truthy(container_sel) \/ SelectRaises(container_sel)
             THEN [raised |-> TRUE, items |-> <<>>]
             ELSE LET containers == Select(soup, container_sel)
                  IN  IF \E i \in 1..Len(containers) :
                            BuildItemRaises(containers[i], selectors.v)
                      THEN [raised |-> TRUE, items |-> <<>>]
                      ELSE [raised |-> FALSE,
                            items  |-> CollectItems(containers, selectors.v)]

\* HttpScraper._extract_items(soup, selectors): the items, or raised = TRUE
\* when an exception leaves the method
extract_items(soup, selectors) ==
    IF selectors.t # "dict" THEN [raised |-> TRUE, items |-> <<>>]
    ELSE LET container_sel == ContainerSel(selectors.v)
         IN  IF ~Truthy(container_sel) THEN [raised |-> FALSE, items |-> <<>>]
             ELSE IF SelectRaises(container_sel) THEN [raised |-> TRUE, items |-> <<>>]
             ELSE LET containers == Select(soup, container_sel)
                  IN  IF \E i \in 1..Len(containers) :
                            BuildItemRaises(containers[i], selectors.v)
                      THEN [raised |-> TRUE, items |-> <<>>]
                      ELSE [raised |-> FALSE,
                            items  |-> CollectItems(containers, selectors.v)]

\* ------------------------------------------------------------------- results
\* an f-string: its literal parts and formatted values, in order
FStr(tokens) == [t |-> "fstr", v |-> tokens]

\* the dict every handler builds for a failure
Failure(reason) ==
    [success |-> FALSE, items |-> <<>>, count |-> 0,
     needs_browser |-> TRUE, reason |-> reason]

\* the exception classes of the requests library and their base classes
TimeoutClasses == {"Timeout", "ConnectTimeout", "ReadTimeout"}
RequestExceptionClasses ==
    TimeoutClasses \cup {"RequestException", "ConnectionError", "HTTPError", "MissingSchema"}

\* the except clauses with the one for RequestException tried first
ScrapeExcept_RequestExceptionFirst(cls, detail) ==
    IF cls \in RequestExceptionClasses THEN Failure(FStr(<<"request_error: ", detail>>))
    ELSE IF cls \in TimeoutClasses THEN Failure(FStr(<<"timeout">>))
    ELSE Failure(FStr(<<"parse_error: ", detail>>))

\* the except clauses of scrape, tried in source order (lines 92-115)
ScrapeExcept(cls, detail) ==
    IF cls \in TimeoutClasses THEN Failure(FStr(<<"timeout">>))
    ELSE IF cls \in RequestExceptionClasses THEN Failure(FStr(<<"request_error: ", detail>>))
    ELSE Failure(FStr(<<"parse_error: ", detail>>))

\* response.raise_for_status() raises HTTPError
RaisesForStatus(status) == status >= 400 /\ status < 600

\* Classify with `count <= target_count` as the below-target test
Classify_StrictTarget(items, target_count) ==
    LET count == Len(items)
    IN  IF count = 0 THEN [raised |-> FALSE, result |-> Failure(FStr(<<"no_items_found">>))]
        ELSE IF target_count.t # "int" THEN [raised |-> TRUE, result |-> PyNone]
        ELSE IF count <= target_count.v
        THEN [raised |-> FALSE,
              result |-> [success |-> TRUE, items |-> items, count |-> count,
                          needs_browser |-> TRUE,
                          reason |-> FStr(<<"below_target_", count, "/", target_count.v>>)]]
        ELSE [raised |-> FALSE,
              result |-> [success |-> TRUE, items |-> items, count |-> count,
                          needs_browser |-> FALSE, reason |-> PyNone]]

\* Classify where the below-target result is built like the other escalations
Classify_BelowTargetDropsItems(items, target_count) ==
    LET count == Len(items)
    IN  IF count = 0 THEN [raised |-> FALSE, result |-> Failure(FStr(<<"no_items_found">>))]
        ELSE IF target_count.t # "int" THEN [raised |-> TRUE, result |-> PyNone]
        ELSE IF count < target_count.v
        THEN [raised |-> FALSE,
              result |-> [success |-> TRUE, items |-> <<>>, count |-> 0,
                          needs_browser |-> TRUE,
                          reason |-> FStr(<<"below_target_", count, "/", target_count.v>>)]]
        ELSE [raised |-> FALSE,
              result |-> [success |-> TRUE, items |-> items, count |-> count,
                          needs_browser |-> FALSE, reason |-> PyNone]]

\* Classify where the below-target result carries no reason
Classify_BelowTargetNoReason(items, target_count) ==
    LET count == Len(items)
    IN  IF count = 0 THEN [raised |-> FALSE, result |-> Failure(FStr(<<"no_items_found">>))]
        ELSE IF target_count.t # "int" THEN [raised |-> TRUE, result |-> PyNone]
        ELSE IF count < target_count.v
        THEN [raised |-> FALSE,
              result |-> [success |-> TRUE, items |-> items, count |-> count,
                          needs_browser |-> TRUE, reason |-> PyNone]]
        ELSE [raised |-> FALSE,
              result |-> [success |-> TRUE, items |-> items, count |-> count,
                          needs_browser |-> FALSE, reason |-> PyNone]]

\* the escalation decision on the extracted items (lines 64-90)
Classify(items, target_count) ==
    LET count == Len(items)
    IN  IF count = 0 THEN [raised |-> FALSE, result |-> Failure(FStr(<<"no_items_found">>))]
        ELSE IF target_count.t # "int" THEN [raised |-> TRUE, result |-> PyNone]
        ELSE IF count < target_count.v
        THEN [raised |-> FALSE,
              result |-> [success |-> TRUE, items |-> items, count |-> count,
                          needs_browser |-> TRUE,
                          reason |-> FStr(<<"below_target_", count, "/", target_count.v>>)]]
        ELSE [raised |-> FALSE,
              result |-> [success |-> TRUE, items |-> items, count |-> count,
                          needs_browser |-> FALSE, reason |-> PyNone]]

\* scrape where the items are extracted before the block check and the
\* bot_detection result carries them
scrape_ExtractBeforeBlockCheck(url, selectors, target_count, outcome) ==
    IF outcome.kind = "raise"
    THEN [result |-> ScrapeExcept(outcome.cls, outcome.detail), calls |-> <<"get">>]
    ELSE IF RaisesForStatus(outcome.status)
    THEN [result |-> ScrapeExcept("HTTPError", "status"), calls |-> <<"get">>]
    ELSE LET extracted == extract_items(outcome.soup, selectors)
             calls == <<"get", "parse", "extract_items", "is_bot_blocked">>
         IN  IF extracted.raised
             THEN [result |-> ScrapeExcept("Exception", "extract"), calls |-> calls]
             ELSE IF is_bot_blocked(outcome.text)
             THEN [result |-> [success |-> FALSE, items |-> extracted.items,
                               count |-> Len(extracted.items), needs_browser |-> TRUE,
                               reason |-> FStr(<<"bot_detection">>)],
                   calls  |-> calls]
             ELSE LET verdict == Classify(extracted.items, target_count)
                  IN  IF verdict.raised
                      THEN [result |-> ScrapeExcept("TypeError", "compare"), calls |-> calls]
                      ELSE [result |-> verdict.result, calls |-> calls]

\* HttpScraper.scrape(url, selectors, target_count), given what session.get
\* does for this call (outcome).  calls lists the collaborators invoked.
scrape(url, selectors, target_count, outcome) ==
    IF outcome.kind = "raise"
    THEN [result |-> ScrapeExcept(outcome.cls, outcome.detail), calls |-> <<"get">>]
    ELSE IF RaisesForStatus(outcome.status)
    THEN [result |-> ScrapeExcept("HTTPError", "status"), calls |-> <<"get">>]
    ELSE IF is_bot_blocked(outcome.text)
    THEN [result |-> Failure(FStr(<<"bot_detection">>)),
          calls  |-> <<"get", "is_bot_blocked">>]
    ELSE LET extracted == extract_items(outcome.soup, selectors)
             calls == <<"get", "is_bot_blocked", "parse", "extract_items">>
         IN  IF extracted.raised
             THEN [result |-> ScrapeExcept("Exception", "extract"), calls |-> calls]
             ELSE LET verdict == Classify(extracted.items, target_count)
                  IN  IF verdict.raised
                      THEN [result |-> ScrapeExcept("TypeError", "compare"), calls |-> calls]
                      ELSE [result |-> verdict.result, calls |-> calls]

\* ------------------------------------------------------------ the environment
\* A line of text (an input line or a command-line argument) is its content
\* and whether white space or a newline surrounds it.  The content is empty,
\* text that is not JSON, or the JSON text of a value.
TextEmpty == [t |-> "empty"]
TextGarbage == [t |-> "garbage"]
TextJson(value) == [t |-> "json", v |-> value]
Line(padded, content) == [padded |-> padded, content |-> content]

\* line.strip(): the content without the surrounding white space
StripLine(l) == l.content

\* json.loads(text): the decoded value, or raised = TRUE for JSONDecodeError
JsonLoads(text) ==
    IF text.t = "json" THEN [raised |-> FALSE, value |-> text.v]
    ELSE [raised |-> TRUE, value |-> PyNone]

Chars_Widget == <<"W","i","d","g","e","t">>
Chars_Price == <<"9",".","5">>
Chars_Link == <<"/","p","/","1">>

Elem(matches, text, attrs) ==
    [matches |-> matches, text |-> text, attrs |-> attrs,
     html |-> <<"<">> \o text \o <<">">>, kids |-> <<>>]

\* a product card whose fields are populated
GoodCard ==
    [matches |-> {".item", "div"}, text |-> <<>>, attrs |-> <<>>, html |-> <<"<", ">">>,
     kids |-> << Elem({".title"}, <<" ">> \o Chars_Widget \o <<"\n">>, <<>>),
                 Elem({".price"}, Chars_Price, <<>>),
                 Elem({"a"}, <<>>, [href |-> Chars_Link]) >>]

\* a product card whose fields are all empty or white space
EmptyCard ==
    [matches |-> {".item", "div"}, text |-> <<>>, attrs |-> <<>>, html |-> <<"<", ">">>,
     kids |-> << Elem({".title"}, <<" ", "\n">>, <<>>),
                 Elem({".price"}, <<>>, <<>>),
                 Elem({"a"}, <<>>, [href |-> <<" ">>]) >>]

Filler(n) == [i \in 1..n |-> "x"]

BodyPlain == Filler(MinBodyLen)
BodyShort == Filler(MinBodyLen - 1)
BodyCaptcha ==
    Filler(MinBodyLen) \o
    <<"P","l","e","a","s","e"," ","c","o","m","p","l","e","t","e"," ",
      "t","h","e"," ","C","A","P","T","C","H","A">>

Raise(cls) == [kind |-> "raise", cls |-> cls, detail |-> cls]
Response(status, text, soup) ==
    [kind |-> "response", status |-> status, text |-> text, soup |-> soup]

GoodCards(n) == [i \in 1..n |-> GoodCard]

Soups == {GoodCards(n) : n \in 0..MaxCards} \cup {<<EmptyCard, GoodCard>>}

\* what session.get(url, timeout=TIMEOUT) and raise_for_status can do
Outcomes ==
    {Raise("ReadTimeout"), Raise("ConnectionError")}
    \cup {Response(404, BodyCaptcha, GoodCards(1))}
    \cup {Response(200, BodyShort, GoodCards(1)),
          Response(200, BodyCaptcha, GoodCards(MaxCards))}
    \cup {Response(200, BodyPlain, soup) : soup \in Soups}

ValidUrls == {"http://shop.test/list"}

\* a fetch with no time limit on a server that never answers: no outcome
FetchOutcomes_NoTimeout(url) ==
    IF url.t = "str" /\ url.v \in ValidUrls THEN {} ELSE {Raise("MissingSchema")}

\* session.get rejects anything that is not a URL before any network traffic
FetchOutcomes(url) ==
    IF url.t = "str" /\ url.v \in ValidUrls THEN Outcomes ELSE {Raise("MissingSchema")}

\* selector configurations
SelectorsA ==
    PyDict([container |-> PyStr(".item"),
            name      |-> PyStr(".title"),
            price     |-> PyDict([selector |-> PyStr(".price"), attribute |-> PyStr("text")])])
SelectorsB ==
    PyDict([productContainer |-> PyDict([selector |-> PyStr(".item")]),
            link             |-> PyDict([selector |-> PyStr("a"), attribute |-> PyStr("href")])])

\* configurations whose container does not resolve
SelNoAlias == PyDict([name |-> PyStr(".title")])
SelEmptyAlias == PyDict([container |-> PyStr(""), name |-> PyStr(".title")])
SelObjEmptySelector ==
    PyDict([container |-> PyDict([selector |-> PyStr("")]), name |-> PyStr(".title")])
SelObjNoSelector ==
    PyDict([productContainer |-> PyDict([attribute |-> PyStr("text")]),
            container        |-> PyStr(".item"),
            name             |-> PyStr(".title")])
SelNoAliasBadField == PyDict([name |-> PyStr("div["), n |-> PyInt(3)])

\* configurations with several aliases
SelSecondAlias ==
    PyDict([productContainer  |-> PyStr(""),
            container         |-> PyStr(".item"),
            product_container |-> PyStr(".none"),
            name              |-> PyStr(".title")])
SelFirstAlias ==
    PyDict([productContainer |-> PyStr(".item"),
            container        |-> PyStr(".none"),
            name             |-> PyStr(".title")])
SelThirdAlias ==
    PyDict([productContainer  |-> PyDict(<<>>),
            product_container |-> PyDict([selector |-> PyStr("div")]),
            name              |-> PyStr(".title")])

\* configurations with entries of other shapes
SelOddFields ==
    PyDict([container |-> PyStr(".item"),
            name      |-> PyStr(".title"),
            n         |-> PyInt(3),
            l         |-> PyList(<<>>),
            z         |-> PyNone,
            o         |-> PyDict([attribute |-> PyStr("href")])])
SelNumContainer == PyDict([container |-> PyInt(5), name |-> PyStr(".title")])
SelListContainer ==
    PyDict([container |-> PyList(<<PyStr(".item")>>), name |-> PyStr(".title")])
SelNumFieldSelector ==
    PyDict([container |-> PyStr(".item"), name |-> PyDict([selector |-> PyInt(5)])])
SelBadCss == PyDict([container |-> PyStr("div["), name |-> PyStr(".title")])
SelNoMatch ==
    PyDict([container |-> PyStr(".item"),
            name      |-> PyStr(".none"),
            image     |-> PyDict([selector |-> PyStr("a"), attribute |-> PyStr("src")])])

OtherSelectors ==
    {SelNoAlias, SelEmptyAlias, SelObjEmptySelector, SelObjNoSelector, SelNoAliasBadField,
     SelSecondAlias, SelFirstAlias, SelThirdAlias,
     SelOddFields, SelNumContainer, SelListContainer, SelNumFieldSelector, SelBadCss,
     SelNoMatch}

Url == PyStr("http://shop.test/list")

TargetCounts == {PyInt(n) : n \in -1..(MaxCards + 1)}

\* request objects that carry url and selectors
FullRequests ==
    {[url |-> Url, selectors |-> sel, targetCount |-> tc] :
        sel \in {SelectorsA, SelectorsB}, tc \in TargetCounts}
    \cup {[url |-> Url, selectors |-> sel, targetCount |-> PyInt(1)] : sel \in OtherSelectors}
    \cup {[url |-> Url, selectors |-> SelectorsA],
          [url |-> Url, selectors |-> SelectorsA, targetCount |-> PyStr("many")],
          [url |-> Url, selectors |-> PyStr(".item"), targetCount |-> PyInt(1)],
          [url |-> PyStr(""), selectors |-> SelectorsA, targetCount |-> PyInt(1)],
          [url |-> PyInt(5), selectors |-> SelectorsA, targetCount |-> PyInt(1)],
          [url |-> Url, selectors |-> SelectorsA, command |-> PyStr("status")],
          [url |-> Url, selectors |-> SelectorsA, command |-> PyStr("shutdown")]}

\* decoded values that are not a request with url and selectors
OtherValues ==
    {PyDict([command |-> PyStr("shutdown")]),
     PyDict([selectors |-> SelectorsA, targetCount |-> PyInt(1)]),
     PyDict([url |-> Url]),
     PyList(<<>>), PyNone}

\* the command-line arguments (sys.argv[1:]) of one run
ServeFlag == [t |-> "serve"]
Argvs ==
    {<<>>, <<ServeFlag>>, <<TextEmpty>>, <<TextGarbage>>}
    \cup {<<TextJson(PyDict(r))>> : r \in FullRequests}
    \cup {<<TextJson(v)>> : v \in OtherValues}

\* the lines the persistent loop can be sent
Lines ==
    {Line(FALSE, TextEmpty), Line(TRUE, TextEmpty), Line(TRUE, TextGarbage)}
    \cup {Line(TRUE, TextJson(v)) : v \in
            {PyDict([command |-> PyStr("shutdown")]),
             PyDict([command |-> PyStr("shutdown"), url |-> Url, selectors |-> SelectorsA]),
             PyDict([selectors |-> SelectorsA, targetCount |-> PyInt(1)]),
             PyList(<<>>)}}
    \cup {Line(TRUE, TextJson(PyDict(r))) : r \in
            {[url |-> Url, selectors |-> SelectorsA, targetCount |-> PyInt(2),
              command |-> PyStr("status")],
             [url |-> Url, selectors |-> PyStr(".item")],
             [url |-> PyStr(""), selectors |-> SelectorsA, targetCount |-> PyInt(1)],
             [url |-> PyInt(5), selectors |-> SelectorsA, targetCount |-> PyInt(1)]}}

\* ---------------------------------------------------------------- the state
VARIABLES
    argv,        \* sys.argv[1:]
    pc,          \* "main", "serve_loop", "serve_scrape", "main_scrape", "done"
    line,        \* serve: the loop variable, after strip()
    cur,         \* the arguments of this iteration's scrape call, if it makes one
    response,    \* what session.get did in this iteration's scrape call
    calls,       \* the collaborators that scrape call invoked, in order
    stdout,      \* the objects printed so far, one per line
    exit_code,   \* the process exit status (meaningful once pc = "done")
    nLines,      \* history: input lines read by serve
    nBlank,      \* history: of those, lines that are empty or white space
    nShutdown,   \* history: of those, lines that are a shutdown command
    nGet         \* history: calls of session.get

vars == <<argv, pc, line, cur, response, calls, stdout, exit_code,
          nLines, nBlank, nShutdown, nGet>>

\* what the history counters count
IsBlankLine(l) == l.content.t = "empty"
IsShutdownLine(l) ==
    /\ l.content.t = "json"
    /\ l.content.v.t = "dict"
    /\ "command" \in DOMAIN l.content.v.v
    /\ l.content.v.v["command"] = PyStr("shutdown")

Init ==
    /\ argv \in Argvs
    /\ pc = "main"
    /\ line = PyNone
    /\ cur = PyNone
    /\ response = PyNone
    /\ calls = <<>>
    /\ stdout = <<>>
    /\ exit_code = 0
    /\ nLines = 0
    /\ nBlank = 0
    /\ nShutdown = 0
    /\ nGet = 0

\* ------------------------------------------------------------------- serve
\* ServeRequest with the url looked at before the command
ServeRequest_UrlBeforeCommand(request) ==
    IF request.t # "dict"
    THEN [op |-> "raise", cls |-> "AttributeError"]
    ELSE LET url == DictGet(request.v, "url", PyStr(""))
             selectors == DictGet(request.v, "selectors", EmptyDict)
             target_count == DictGet(request.v, "targetCount", PyInt(DefaultTargetCount))
         IN  IF Truthy(url)
             THEN [op |-> "scrape",
                   args |-> [url |-> url, selectors |-> selectors,
                             target_count |-> target_count]]
             ELSE IF DictGet(request.v, "command", PyNone) = PyStr("shutdown")
             THEN [op |-> "break"]
             ELSE [op |-> "print", result |-> Failure(FStr(<<"missing_url">>))]

\* ServeRequest without the `if not url` check
ServeRequest_NoUrlCheck(request) ==
    IF request.t # "dict"
    THEN [op |-> "raise", cls |-> "AttributeError"]
    ELSE IF DictGet(request.v, "command", PyNone) = PyStr("shutdown")
    THEN [op |-> "break"]
    ELSE [op |-> "scrape",
          args |-> [url |-> DictGet(request.v, "url", PyStr("")),
                    selectors |-> DictGet(request.v, "selectors", EmptyDict),
                    target_count |-> DictGet(request.v, "targetCount",
                                             PyInt(DefaultTargetCount))]]

\* the handling of a decoded request up to the scrape call (lines 227-244)
ServeRequest(request) ==
    IF request.t # "dict"
    THEN [op |-> "raise", cls |-> "AttributeError"]
    ELSE IF DictGet(request.v, "command", PyNone) = PyStr("shutdown")
    THEN [op |-> "break"]
    ELSE LET url == DictGet(request.v, "url", PyStr(""))
             selectors == DictGet(request.v, "selectors", EmptyDict)
             target_count == DictGet(request.v, "targetCount", PyInt(DefaultTargetCount))
         IN  IF ~Truthy(url)
             THEN [op |-> "print", result |-> Failure(FStr(<<"missing_url">>))]
             ELSE [op |-> "scrape",
                   args |-> [url |-> url, selectors |-> selectors,
                             target_count |-> target_count]]

\* ServeLine without the blank-line check
ServeLine_NoBlankSkip(text) ==
    LET decoded == JsonLoads(text)
    IN  IF decoded.raised
        THEN [op |-> "print",
              result |-> Failure(FStr(<<"json_decode_error: ", "detail">>))]
        ELSE LET step == ServeRequest(decoded.value)
             IN  IF step.op = "raise"
                 THEN [op |-> "print",
                       result |-> Failure(FStr(<<"worker_error: ", step.cls>>))]
                 ELSE step

\* ServeLine where an unexpected exception leaves the loop
ServeLine_ErrorEndsLoop(text) ==
    IF text.t = "empty" THEN [op |-> "continue"]
    ELSE LET decoded == JsonLoads(text)
         IN  IF decoded.raised
             THEN [op |-> "print",
                   result |-> Failure(FStr(<<"json_decode_error: ", "detail">>))]
             ELSE LET step == ServeRequest(decoded.value)
                  IN  IF step.op = "raise" THEN [op |-> "break"] ELSE step

\* ServeLine where the general except clause catches the decoding error
ServeLine_DecodeErrorAsWorkerError(text) ==
    IF text.t = "empty" THEN [op |-> "continue"]
    ELSE LET decoded == JsonLoads(text)
         IN  IF decoded.raised
             THEN [op |-> "print",
                   result |-> Failure(FStr(<<"worker_error: ", "detail">>))]
             ELSE LET step == ServeRequest(decoded.value)
                  IN  IF step.op = "raise"
                      THEN [op |-> "print",
                            result |-> Failure(FStr(<<"worker_error: ", step.cls>>))]
                      ELSE step

\* the body of the for loop for one stripped line, up to the scrape call
\* (lines 220-264): the blank-line check, the decoding and the except clauses
ServeLine(text) ==
    IF text.t = "empty" THEN [op |-> "continue"]
    ELSE LET decoded == JsonLoads(text)
         IN  IF decoded.raised
             THEN [op |-> "print",
                   result |-> Failure(FStr(<<"json_decode_error: ", "detail">>))]
             ELSE LET step == ServeRequest(decoded.value)
                  IN  IF step.op = "raise"
                      THEN [op |-> "print",
                            result |-> Failure(FStr(<<"worker_error: ", step.cls>>))]
                      ELSE step

\* a loop that reads the next line while a scrape call is still in progress
ServeRead_WhilePending ==
    /\ pc \in {"serve_loop", "serve_scrape"}
    /\ nLines < MaxLines
    /\ \E l \in Lines :
          LET step == ServeLine(StripLine(l))
          IN  /\ line' = StripLine(l)
              /\ nLines' = nLines + 1
              /\ nBlank' = nBlank + (IF IsBlankLine(l) THEN 1 ELSE 0)
              /\ nShutdown' = nShutdown + (IF IsShutdownLine(l) THEN 1 ELSE 0)
              /\ pc' = CASE step.op = "break"  -> "done"
                         [] step.op = "scrape" -> "serve_scrape"
                         [] OTHER              -> "serve_loop"
              /\ stdout' = IF step.op = "print" THEN Append(stdout, step.result)
                           ELSE stdout
              /\ cur' = IF step.op = "scrape" THEN step.args ELSE PyNone
    /\ response' = PyNone
    /\ calls' = <<>>
    /\ UNCHANGED <<argv, exit_code, nGet>>

\* serve reads one line and handles it up to the call of scraper.scrape; the
\* observations of the previous iteration's scrape call are forgotten
ServeRead ==
    /\ pc = "serve_loop"
    /\ nLines < MaxLines
    /\ \E l \in Lines :
          LET step == ServeLine(StripLine(l))
          IN  /\ line' = StripLine(l)
              /\ nLines' = nLines + 1
              /\ nBlank' = nBlank + (IF IsBlankLine(l) THEN 1 ELSE 0)
              /\ nShutdown' = nShutdown + (IF IsShutdownLine(l) THEN 1 ELSE 0)
              /\ pc' = CASE step.op = "break"  -> "done"
                         [] step.op = "scrape" -> "serve_scrape"
                         [] OTHER              -> "serve_loop"
              /\ stdout' = IF step.op = "print" THEN Append(stdout, step.result)
                           ELSE stdout
              /\ cur' = IF step.op = "scrape" THEN step.args ELSE PyNone
    /\ response' = PyNone
    /\ calls' = <<>>
    /\ UNCHANGED <<argv, exit_code, nGet>>

\* scraper.scrape returns and serve prints its result
ServeScrapeReturn ==
    /\ pc = "serve_scrape"
    /\ \E outcome \in FetchOutcomes(cur.url) :
          LET r == scrape(cur.url, cur.selectors, cur.target_count, outcome)
          IN  /\ response' = outcome
              /\ calls' = r.calls
              /\ stdout' = Append(stdout, r.result)
    /\ nGet' = nGet + 1
    /\ pc' = "serve_loop"
    /\ UNCHANGED <<argv, line, cur, exit_code, nLines, nBlank, nShutdown>>

\* standard input is exhausted: the for loop ends and serve returns
ServeEndOfInput ==
    /\ pc = "serve_loop"
    /\ pc' = "done"
    /\ UNCHANGED <<argv, line, cur, response, calls, stdout, exit_code,
                   nLines, nBlank, nShutdown, nGet>>

\* reading standard input raises: the exception leaves serve and main
ServeInputError ==
    /\ pc = "serve_loop"
    /\ pc' = "done"
    /\ exit_code' = 1
    /\ UNCHANGED <<argv, line, cur, response, calls, stdout,
                   nLines, nBlank, nShutdown, nGet>>

\* -------------------------------------------------------------------- main
UsageError == [error |-> "Usage: http_scraper.py <json_input> OR http_scraper.py --serve"]

\* main reading selectors with a default, as serve does
MainArg_DefaultSelectors(text) ==
    LET decoded == JsonLoads(text)
        input_data == decoded.value
    IN  IF decoded.raised
        THEN [op |-> "fail",
              result |-> Failure(FStr(<<"json_decode_error: ", "detail">>))]
        ELSE IF input_data.t # "dict"
        THEN [op |-> "fail", result |-> Failure(FStr(<<"fatal_error: ", "TypeError">>))]
        ELSE IF "url" \notin DOMAIN input_data.v
        THEN [op |-> "fail", result |-> Failure(FStr(<<"missing_key: ", "url">>))]
        ELSE [op |-> "scrape",
              args |-> [url |-> input_data.v["url"],
                        selectors |-> DictGet(input_data.v, "selectors", EmptyDict),
                        target_count |-> DictGet(input_data.v, "targetCount",
                                                 PyInt(DefaultTargetCount))]]

\* main reporting a missing key in the shape of the usage message
MainArg_MissingKeyAsError(text) ==
    LET decoded == JsonLoads(text)
        input_data == decoded.value
    IN  IF decoded.raised
        THEN [op |-> "fail",
              result |-> Failure(FStr(<<"json_decode_error: ", "detail">>))]
        ELSE IF input_data.t # "dict"
        THEN [op |-> "fail", result |-> Failure(FStr(<<"fatal_error: ", "TypeError">>))]
        ELSE IF "url" \notin DOMAIN input_data.v
        THEN [op |-> "fail", result |-> [error |-> "missing_key: url"]]
        ELSE IF "selectors" \notin DOMAIN input_data.v
        THEN [op |-> "fail", result |-> [error |-> "missing_key: selectors"]]
        ELSE [op |-> "scrape",
              args |-> [url |-> input_data.v["url"],
                        selectors |-> input_data.v["selectors"],
                        target_count |-> DictGet(input_data.v, "targetCount",
                                                 PyInt(DefaultTargetCount))]]

\* main with a default targetCount of its own
MainArg_OtherDefault(text) ==
    LET decoded == JsonLoads(text)
        input_data == decoded.value
    IN  IF decoded.raised
        THEN [op |-> "fail",
              result |-> Failure(FStr(<<"json_decode_error: ", "detail">>))]
        ELSE IF input_data.t # "dict"
        THEN [op |-> "fail", result |-> Failure(FStr(<<"fatal_error: ", "TypeError">>))]
        ELSE IF "url" \notin DOMAIN input_data.v
        THEN [op |-> "fail", result |-> Failure(FStr(<<"missing_key: ", "url">>))]
        ELSE IF "selectors" \notin DOMAIN input_data.v
        THEN [op |-> "fail", result |-> Failure(FStr(<<"missing_key: ", "selectors">>))]
        ELSE [op |-> "scrape",
              args |-> [url |-> input_data.v["url"],
                        selectors |-> input_data.v["selectors"],
                        target_count |-> DictGet(input_data.v, "targetCount", PyInt(5))]]

\* main on a single JSON argument, up to the scrape call (lines 278-315)
MainArg(text) ==
    LET decoded == JsonLoads(text)
        input_data == decoded.value
    IN  IF decoded.raised
        THEN [op |-> "fail",
              result |-> Failure(FStr(<<"json_decode_error: ", "detail">>))]
        ELSE IF input_data.t # "dict"
        THEN [op |-> "fail", result |-> Failure(FStr(<<"fatal_error: ", "TypeError">>))]
        ELSE IF "url" \notin DOMAIN input_data.v
        THEN [op |-> "fail", result |-> Failure(FStr(<<"missing_key: ", "url">>))]
        ELSE IF "selectors" \notin DOMAIN input_data.v
        THEN [op |-> "fail", result |-> Failure(FStr(<<"missing_key: ", "selectors">>))]
        ELSE [op |-> "scrape",
              args |-> [url |-> input_data.v["url"],
                        selectors |-> input_data.v["selectors"],
                        target_count |-> DictGet(input_data.v, "targetCount",
                                                 PyInt(DefaultTargetCount))]]

\* no argument: the usage message and exit status 1
MainUsage ==
    /\ pc = "main"
    /\ Len(argv) < 1
    /\ stdout' = Append(stdout, UsageError)
    /\ exit_code' = 1
    /\ pc' = "done"
    /\ UNCHANGED <<argv, line, cur, response, calls, nLines, nBlank, nShutdown, nGet>>

\* --serve: enter the persistent loop
MainServe ==
    /\ pc = "main"
    /\ Len(argv) >= 1
    /\ argv[1] = ServeFlag
    /\ pc' = "serve_loop"
    /\ UNCHANGED <<argv, line, cur, response, calls, stdout, exit_code,
                   nLines, nBlank, nShutdown, nGet>>

\* a request argument: decode it, then call scrape or report the failure
MainSingle ==
    /\ pc = "main"
    /\ Len(argv) >= 1
    /\ argv[1] # ServeFlag
    /\ LET step == MainArg(argv[1])
       IN  /\ pc' = IF step.op = "scrape" THEN "main_scrape" ELSE "done"
           /\ stdout' = IF step.op = "fail" THEN Append(stdout, step.result) ELSE stdout
           /\ exit_code' = IF step.op = "fail" THEN 1 ELSE exit_code
           /\ cur' = IF step.op = "scrape" THEN step.args ELSE cur
    /\ UNCHANGED <<argv, line, response, calls, nLines, nBlank, nShutdown, nGet>>

\* scraper.scrape returns, main prints its result and returns
MainScrapeReturn ==
    /\ pc = "main_scrape"
    /\ \E outcome \in FetchOutcomes(cur.url) :
          LET r == scrape(cur.url, cur.selectors, cur.target_count, outcome)
          IN  /\ response' = outcome
              /\ calls' = r.calls
              /\ stdout' = Append(stdout, r.result)
    /\ nGet' = nGet + 1
    /\ pc' = "done"
    /\ UNCHANGED <<argv, line, cur, exit_code, nLines, nBlank, nShutdown>>

Next ==
    \/ MainUsage
    \/ MainServe
    \/ MainSingle
    \/ MainScrapeReturn
    \/ ServeRead
    \/ ServeScrapeReturn
    \/ ServeEndOfInput
    \/ ServeInputError

Spec == Init /\ [][Next]_vars

\* session.get is called with timeout=TIMEOUT, so a scrape call that has
\* started returns: the fetch is answered, fails or times out
FairSpec == Spec /\ WF_vars(ServeScrapeReturn) /\ WF_vars(MainScrapeReturn)

TypeOK ==
    /\ pc \in {"main", "serve_loop", "serve_scrape", "main_scrape", "done"}
    /\ nLines \in 0..MaxLines
    /\ exit_code \in {0, 1}

\* ================================================================== claims
ServeMode == argv = <<ServeFlag>>
SingleMode == Len(argv) >= 1 /\ argv # <<ServeFlag>>
Last(seq) == seq[Len(seq)]

\* the fields of a failure result with the given leading token of reason
IsFailureWith(r, token) ==
    /\ r.success = FALSE
    /\ r.items = <<>>
    /\ r.count = 0
    /\ r.needs_browser = TRUE
    /\ r.reason.t = "fstr"
    /\ r.reason.v[1] = token

\* serve has just read one more line, now in line'
ReadsLine == pc = "serve_loop" /\ nLines' = nLines + 1

\* C1 (as stated): in persistent mode, whenever no request is in progress, the
\* number of response lines written equals the number of lines consumed that
\* are not a shutdown command.
C1_OneResponsePerNonShutdownLine ==
    (ServeMode /\ pc \in {"serve_loop", "done"}) => Len(stdout) = nLines - nShutdown

\* C1 (amended): in persistent mode the number of response lines written
\* equals the number of consumed lines that are neither blank nor a shutdown
\* command, less the one request whose scrape call is still in progress.
C1_OneResponsePerRequestLine ==
    ServeMode =>
        Len(stdout) = nLines - nBlank - nShutdown - (IF pc = "serve_scrape" THEN 1 ELSE 0)

C1_Witness ==
    /\ ServeMode
    /\ pc = "serve_loop"
    /\ nLines = 2
    /\ nBlank = 1
    /\ nShutdown = 0
    /\ Len(stdout) = 1

\* C2: when serve reads a shutdown command, no request is in progress and all
\* earlier lines are answered, the loop terminates, nothing is written and no
\* fetch is started for that line; afterwards no line is read, nothing is
\* written and nothing is fetched.
C2_ShutdownEndsLoopSilently ==
    [][ /\ (nShutdown' > nShutdown) =>
              /\ pc = "serve_loop"
              /\ Len(stdout) = nLines - nBlank
              /\ pc' = "done"
              /\ stdout' = stdout
              /\ nGet' = nGet
              /\ cur' = PyNone
        /\ (nShutdown > 0) =>
              /\ pc = "done"
              /\ nLines' = nLines
              /\ stdout' = stdout
              /\ nGet' = nGet ]_vars

C2_Witness ==
    /\ ServeMode
    /\ pc = "done"
    /\ nShutdown = 1
    /\ nLines = 2
    /\ Len(stdout) = 1
    /\ nGet = 1
    /\ "url" \in DOMAIN line.v.v

\* C3: the persistent loop ends only on a step that reads a shutdown command
\* or on a step that reads no line (end of input, input failure); every step
\* that writes a response, whatever the error it reports, leaves the loop
\* ready to read the next line.
C3_OnlyShutdownOrStreamEnd ==
    [][ (ServeMode /\ pc \in {"serve_loop", "serve_scrape"}) =>
            /\ (pc' = "done") =>
                  \/ nLines' = nLines + 1 /\ nShutdown' = nShutdown + 1
                  \/ pc = "serve_loop" /\ nLines' = nLines /\ stdout' = stdout
            /\ (Len(stdout') > Len(stdout)) => pc' = "serve_loop" ]_vars

C3_Witness ==
    /\ ServeMode
    /\ pc = "serve_loop"
    /\ Len(stdout) = 2
    /\ IsFailureWith(stdout[1], "worker_error: ")
    /\ IsFailureWith(stdout[2], "parse_error: ")

\* C4 (as stated): every line read by serve that cannot be decoded as JSON
\* makes serve write exactly one json_decode_error failure, start no fetch and
\* continue the loop.
C4_UndecodableLineAnswered ==
    [][ (ReadsLine /\ line'.t # "json") =>
            /\ Len(stdout') = Len(stdout) + 1
            /\ IsFailureWith(Last(stdout'), "json_decode_error: ")
            /\ nGet' = nGet
            /\ pc' = "serve_loop" ]_vars

\* C4 (amended): every non-blank line read by serve that cannot be decoded as
\* JSON makes serve write exactly one json_decode_error failure, start no
\* fetch and continue the loop.
C4_MalformedLineAnswered ==
    [][ (ReadsLine /\ line'.t = "garbage") =>
            /\ Len(stdout') = Len(stdout) + 1
            /\ SubSeq(stdout', 1, Len(stdout)) = stdout
            /\ IsFailureWith(Last(stdout'), "json_decode_error: ")
            /\ nGet' = nGet
            /\ cur' = PyNone
            /\ pc' = "serve_loop" ]_vars

C4_Witness ==
    /\ ServeMode
    /\ pc = "serve_loop"
    /\ line.t = "garbage"
    /\ nLines = 2
    /\ Len(stdout) = 2
    /\ IsFailureWith(stdout[2], "json_decode_error: ")

\* a stripped line that decodes to a request object (not a shutdown command)
\* with no url key or with an empty url
LacksUrl(text) ==
    /\ text.t = "json"
    /\ text.v.t = "dict"
    /\ ~("command" \in DOMAIN text.v.v /\ text.v.v["command"] = PyStr("shutdown"))
    /\ \/ "url" \notin DOMAIN text.v.v
       \/ text.v.v["url"] = PyStr("")

\* C5: a request object without a url, or with an empty url, makes serve write
\* the missing_url failure and start no scrape call, whatever its selectors
\* and targetCount are.
C5_MissingUrl ==
    [][ (ReadsLine /\ LacksUrl(line')) =>
            /\ stdout' = Append(stdout, [success |-> FALSE, items |-> <<>>, count |-> 0,
                                         needs_browser |-> TRUE,
                                         reason |-> FStr(<<"missing_url">>)])
            /\ nGet' = nGet
            /\ cur' = PyNone
            /\ pc' = "serve_loop" ]_vars

C5_Witness ==
    /\ ServeMode
    /\ pc = "serve_loop"
    /\ LacksUrl(line)
    /\ "url" \in DOMAIN line.v.v
    /\ "selectors" \in DOMAIN line.v.v
    /\ Len(stdout) = 1
    /\ IsFailureWith(stdout[1], "missing_url")
    /\ nGet = 0

\* a scrape call returns on this step: its outcome is in response', its
\* arguments are in cur and its result is the last object of stdout'
ScrapeReturns == pc \in {"serve_scrape", "main_scrape"} /\ pc' # pc

\* the fetch succeeded: a response with a success status
FetchedOk(r) == r.kind = "response" /\ r.status \in 200..299

\* the body is shorter than 500 characters or contains a block indicator,
\* whatever the case of its letters
BlockedBody(text) ==
    \/ Len(text) < MinBodyLen
    \/ \E k \in 1..Len(bot_indicators) : Contains(bot_indicators[k], Lower(text))

\* what extraction yields on the document of response r for the request in cur
ExtractedFrom(r) == extract_items(r.soup, cur.selectors)

\* the fetch succeeded, was not blocked and extraction returned its items
ExtractedItems(r) ==
    /\ FetchedOk(r)
    /\ ~BlockedBody(r.text)
    /\ ~ExtractedFrom(r).raised
    /\ cur.target_count.t = "int"

\* C6 (as stated): whenever extraction yields count items and
\* count >= targetCount, for any integer targetCount, the result has
\* needs_browser = false, success = true and reason = null.
C6_TargetReachedNoBrowser ==
    [][ (/\ ScrapeReturns
         /\ ExtractedItems(response')
         /\ Len(ExtractedFrom(response').items) >= cur.target_count.v) =>
            LET r == Last(stdout')
            IN  r.needs_browser = FALSE /\ r.success = TRUE /\ r.reason = PyNone ]_vars

\* C6 (amended): whenever extraction yields at least one item and
\* count >= targetCount, for any integer targetCount (zero and negative
\* included), the result has needs_browser = false, success = true,
\* reason = null and carries the extracted items.
C6_TargetReachedWithItemsNoBrowser ==
    [][ (/\ ScrapeReturns
         /\ ExtractedItems(response')
         /\ Len(ExtractedFrom(response').items) > 0
         /\ Len(ExtractedFrom(response').items) >= cur.target_count.v) =>
            LET r == Last(stdout')
            IN  /\ r.needs_browser = FALSE
                /\ r.success = TRUE
                /\ r.reason = PyNone
                /\ r.count = Len(ExtractedFrom(response').items)
                /\ r.items = ExtractedFrom(response').items ]_vars

C6_Witness ==
    /\ SingleMode
    /\ pc = "done"
    /\ nGet = 1
    /\ ExtractedItems(response)
    /\ cur.target_count.v = Len(ExtractedFrom(response).items)
    /\ Last(stdout).count = cur.target_count.v
    /\ Last(stdout).count > 0
    /\ Last(stdout).needs_browser = FALSE

\* C7: whenever extraction yields count items with 0 < count < targetCount,
\* the result has success = true, needs_browser = true, the reason
\* below_target_<count>/<targetCount>, count = the number of extracted items
\* and items = the extracted items.
C7_BelowTarget ==
    [][ (/\ ScrapeReturns
         /\ ExtractedItems(response')
         /\ Len(ExtractedFrom(response').items) > 0
         /\ Len(ExtractedFrom(response').items) < cur.target_count.v) =>
            Last(stdout') =
                [success |-> TRUE,
                 items |-> ExtractedFrom(response').items,
                 count |-> Len(ExtractedFrom(response').items),
                 needs_browser |-> TRUE,
                 reason |-> FStr(<<"below_target_", Len(ExtractedFrom(response').items),
                                   "/", cur.target_count.v>>)] ]_vars

C7_Witness ==
    /\ pc = "done"
    /\ nGet = 1
    /\ ExtractedItems(response)
    /\ Len(ExtractedFrom(response).items) = 2
    /\ cur.target_count.v = 3
    /\ Last(stdout).reason = FStr(<<"below_target_", 2, "/", 3>>)
    /\ Len(Last(stdout).items) = 2

BeginsWith(reason, token) == reason.t = "fstr" /\ reason.v[1] = token

\* C8: every printed result with needs_browser = true whose reason does not
\* begin with below_target_ has items = [] and count = 0.
C8_EscalationsCarryNoItems ==
    \A i \in 1..Len(stdout) :
        (/\ "needs_browser" \in DOMAIN stdout[i]
         /\ stdout[i].needs_browser
         /\ ~BeginsWith(stdout[i].reason, "below_target_")) =>
            stdout[i].items = <<>> /\ stdout[i].count = 0

C8_Witness ==
    /\ ServeMode
    /\ Len(stdout) = 2
    /\ BeginsWith(stdout[1].reason, "below_target_")
    /\ Len(stdout[1].items) > 0
    /\ BeginsWith(stdout[2].reason, "bot_detection")
    /\ stdout[2].items = <<>>

\* C9: a printed result has reason = null only if success = true and
\* needs_browser = false; every printed result with success = false or
\* needs_browser = true has a reason that is a non-empty string.
C9_ReasonNullOnlyOnFullSuccess ==
    \A i \in 1..Len(stdout) :
        "reason" \in DOMAIN stdout[i] =>
            /\ (stdout[i].reason = PyNone) =>
                   (stdout[i].success = TRUE /\ stdout[i].needs_browser = FALSE)
            /\ (stdout[i].success = FALSE \/ stdout[i].needs_browser = TRUE) =>
                   (stdout[i].reason.t = "fstr" /\ Len(stdout[i].reason.v) > 0)

C9_Witness ==
    /\ ServeMode
    /\ Len(stdout) = 2
    /\ stdout[1].reason = PyNone
    /\ stdout[1].success
    /\ stdout[2].success
    /\ stdout[2].needs_browser
    /\ stdout[2].reason # PyNone

\* C10: whenever a fetch succeeds with a body shorter than 500 characters or
\* containing a block indicator in any letter case, the result is the
\* bot_detection failure and neither the parser nor the extractor was invoked,
\* whatever the selectors would have matched and whatever targetCount is.
C10_BlockedShortCircuits ==
    [][ (ScrapeReturns /\ FetchedOk(response') /\ BlockedBody(response'.text)) =>
            /\ Last(stdout') = [success |-> FALSE, items |-> <<>>, count |-> 0,
                                needs_browser |-> TRUE,
                                reason |-> FStr(<<"bot_detection">>)]
            /\ \A i \in 1..Len(calls') : calls'[i] \notin {"parse", "extract_items"} ]_vars

C10_Witness ==
    /\ pc = "done"
    /\ nGet = 1
    /\ FetchedOk(response)
    /\ Len(response.text) >= MinBodyLen
    /\ BlockedBody(response.text)
    /\ Len(extract_items(response.soup, cur.selectors).items) >= 1
    /\ Last(stdout).reason = FStr(<<"bot_detection">>)
    /\ calls = <<"get", "is_bot_blocked">>

\* C11: a fetch that times out yields the failure whose reason is exactly
\* "timeout"; any other transport failure, a non-success HTTP status included,
\* yields the failure whose reason begins with "request_error: "; in both
\* cases only the fetch was made: the block detector, the parser and the
\* extractor were not run, even when the body holds a block indicator.
C11_TransportFailuresFirst ==
    [][ ScrapeReturns =>
          /\ (response'.kind = "raise" /\
              response'.cls \in {"Timeout", "ConnectTimeout", "ReadTimeout"}) =>
                 /\ Last(stdout') = [success |-> FALSE, items |-> <<>>, count |-> 0,
                                     needs_browser |-> TRUE,
                                     reason |-> FStr(<<"timeout">>)]
                 /\ calls' = <<"get">>
          /\ (\/ (response'.kind = "raise" /\
                  response'.cls \in {"ConnectionError", "MissingSchema"})
              \/ (response'.kind = "response" /\ response'.status \notin 200..399)) =>
                 /\ IsFailureWith(Last(stdout'), "request_error: ")
                 /\ Len(Last(stdout').reason.v) = 2
                 /\ calls' = <<"get">> ]_vars

C11_Witness ==
    /\ ServeMode
    /\ Len(stdout) = 2
    /\ nGet = 2
    /\ stdout[1].reason = FStr(<<"timeout">>)
    /\ response.kind = "response"
    /\ response.status = 404
    /\ BlockedBody(response.text)
    /\ BeginsWith(stdout[2].reason, "request_error: ")
    /\ calls = <<"get">>

\* the argument is not JSON text
Undecodable(text) == text.t # "json"

\* the decoded argument holds no url key or no selectors key (a value that is
\* not an object holds no key at all)
LacksMandatoryKey(text) ==
    /\ text.t = "json"
    /\ \/ text.v.t # "dict"
       \/ "url" \notin DOMAIN text.v.v
       \/ "selectors" \notin DOMAIN text.v.v

\* C12: a single-shot run that has ended exited with status 0 exactly when
\* scrape produced the result it printed, whatever that result is (timeout,
\* request_error, parse_error, bot_detection, no_items_found included), and
\* with a nonzero status exactly when its argument is not JSON or lacks the
\* url or the selectors key.
C12_SingleShotExitStatus ==
    (SingleMode /\ pc = "done") =>
        /\ exit_code \in {0, 1}
        /\ (exit_code = 0) <=> (nGet = 1 /\ Len(stdout) = 1)
        /\ (exit_code # 0) <=> (Undecodable(argv[1]) \/ LacksMandatoryKey(argv[1]))
        /\ (exit_code = 0 /\ stdout[1].success = FALSE) =>
               stdout[1].reason.v[1] \in {"timeout", "request_error: ", "parse_error: ",
                                          "bot_detection", "no_items_found"}

C12_Witness ==
    /\ SingleMode
    /\ pc = "done"
    /\ exit_code = 0
    /\ IsFailureWith(stdout[1], "bot_detection")

\* a result object: exactly the five fields, of the right kinds
WellFormedResult(r) ==
    /\ DOMAIN r = {"success", "items", "count", "needs_browser", "reason"}
    /\ r.success \in BOOLEAN
    /\ r.needs_browser \in BOOLEAN
    /\ r.count \in Nat
    /\ r.count = Len(r.items)
    /\ (r.reason = PyNone \/ r.reason.t = "fstr")

\* C13 (as stated): in every run, with or without an argument, every object
\* written to stdout is a result with exactly the fields success, items,
\* count, needs_browser and reason, and no exception ends the run.
C13_EveryOutputIsAResult ==
    /\ \A i \in 1..Len(stdout) : WellFormedResult(stdout[i])
    /\ (Len(argv) < 1 \/ ServeMode) => exit_code = 0

\* C13 (amended): in every run that has an argument (each line of persistent
\* mode, or the single-shot argument) every object written to stdout is a
\* result with exactly the five fields; every line that is neither blank nor
\* a shutdown command, and every single-shot argument, is answered by such a
\* result; persistent mode ends with a nonzero status only when reading the
\* input itself fails.  A run without an argument writes the usage object,
\* which has the one field error, and exits with status 1.
C13_EveryAnswerIsAResult ==
    /\ Len(argv) >= 1 => \A i \in 1..Len(stdout) : WellFormedResult(stdout[i])
    /\ (SingleMode /\ pc = "done") => Len(stdout) = 1
    /\ (ServeMode /\ pc \in {"serve_loop", "done"}) =>
           Len(stdout) = nLines - nBlank - nShutdown
    /\ (ServeMode /\ exit_code # 0) => (pc = "done" /\ nShutdown = 0)
    /\ (Len(argv) < 1 /\ pc = "done") =>
           /\ Len(stdout) = 1
           /\ DOMAIN stdout[1] = {"error"}
           /\ exit_code = 1

C13_Witness ==
    /\ SingleMode
    /\ pc = "done"
    /\ Undecodable(argv[1]) \/ LacksMandatoryKey(argv[1])
    /\ WellFormedResult(stdout[1])
    /\ exit_code = 1

\* the value of a container alias counts as empty
EmptyValue(x) ==
    \/ x.t = "None"
    \/ (x.t = "str" /\ x.v = "")
    \/ (x.t = "int" /\ x.v = 0)
    \/ (x.t \in {"dict", "list"} /\ x.v = <<>>)

\* the aliases of a configuration that hold a non-empty value, in priority order
PresentAliases(sel) ==
    SelectSeq(<<"productContainer", "container", "product_container">>,
              LAMBDA k : k \in DOMAIN sel /\ ~EmptyValue(sel[k]))

\* the container of a configuration does not resolve: no alias holds a
\* non-empty value, or the first one that does is an object whose selector
\* is missing or empty
Unresolvable(sel) ==
    \/ PresentAliases(sel) = <<>>
    \/ LET chosen == sel[Head(PresentAliases(sel))]
       IN  /\ chosen.t = "dict"
           /\ \/ "selector" \notin DOMAIN chosen.v
              \/ EmptyValue(chosen.v["selector"])

\* C14: when the container of the configuration does not resolve, a fetch that
\* succeeded and was not blocked ends in the no_items_found failure: the
\* extractor ran and returned nothing, whatever the document holds.
C14_UnresolvedContainerNoItems ==
    [][ (/\ ScrapeReturns
         /\ FetchedOk(response')
         /\ ~BlockedBody(response'.text)
         /\ cur.selectors.t = "dict"
         /\ Unresolvable(cur.selectors.v)) =>
            /\ Last(stdout') = [success |-> FALSE, items |-> <<>>, count |-> 0,
                                needs_browser |-> TRUE,
                                reason |-> FStr(<<"no_items_found">>)]
            /\ calls' = <<"get", "is_bot_blocked", "parse", "extract_items">> ]_vars

C14_Witness ==
    /\ pc = "done"
    /\ nGet = 1
    /\ cur.selectors = SelObjNoSelector
    /\ FetchedOk(response)
    /\ ~BlockedBody(response.text)
    /\ Len(response.soup) = MaxCards
    /\ Last(stdout).reason = FStr(<<"no_items_found">>)

\* C15 (as stated): every item of every result written has at least one field
\* whose value is non-empty after white space is trimmed, whatever kind of
\* attribute the value was read from; an item with no field, or whose values
\* are all empty or white space, is not among the items and is not counted.
C15_KeptItemsHaveNonBlankValue ==
    \A i \in 1..Len(stdout) :
        "items" \in DOMAIN stdout[i] =>
            \A k \in 1..Len(stdout[i].items) :
                \E f \in DOMAIN stdout[i].items[k] :
                    Strip(stdout[i].items[k][f]) # <<>>

\* the response the request in a stripped line calls for, given the outcome
\* of its fetch when it has a url
AnswerTo(text, outcome) ==
    IF text.t # "json" THEN Failure(FStr(<<"json_decode_error: ", "detail">>))
    ELSE IF text.v.t # "dict" THEN Failure(FStr(<<"worker_error: ", "AttributeError">>))
    ELSE IF LacksUrl(text) THEN Failure(FStr(<<"missing_url">>))
    ELSE scrape(text.v.v["url"],
                DictGet(text.v.v, "selectors", EmptyDict),
                DictGet(text.v.v, "targetCount", PyInt(DefaultTargetCount)),
                outcome).result

\* C16: persistent mode handles its lines strictly one at a time and in
\* order: a line is read only when no scrape call is in progress and every
\* earlier request has its response on stdout; a fetch is made only by the
\* one call in progress; every response is appended after the earlier ones
\* and is the answer to the line read last.
C16_StrictFifo ==
    [][ ServeMode =>
          /\ (nLines' # nLines) =>
                /\ nLines' = nLines + 1
                /\ pc = "serve_loop"
                /\ Len(stdout) = nLines - nBlank - nShutdown
          /\ (nGet' # nGet) =>
                /\ nGet' = nGet + 1
                /\ pc = "serve_scrape"
                /\ pc' = "serve_loop"
                /\ line' = line
                /\ Len(stdout') = Len(stdout) + 1
          /\ (stdout' # stdout) =>
                /\ stdout' = Append(stdout, AnswerTo(line', response'))
                /\ Len(stdout') = nLines' - nBlank' - nShutdown' ]_vars

C16_Witness ==
    /\ ServeMode
    /\ pc = "serve_loop"
    /\ nLines = 2
    /\ nGet = 1
    /\ Len(stdout) = 2
    /\ stdout[1].success
    /\ IsFailureWith(stdout[2], "json_decode_error: ")
    /\ line.t = "garbage"

\* C17: given that every fetch returns one of its outcomes, a request whose
\* scrape call is in progress in persistent mode eventually has its response
\* written (every request line read so far is then answered) and the loop is
\* back at its head; no request stays in progress for ever.
C17_EveryRequestAnswered ==
    (ServeMode /\ pc = "serve_scrape")
        ~> (/\ pc = "serve_loop"
            /\ response # PyNone
            /\ Len(stdout) = nLines - nBlank - nShutdown)

C17_Witness ==
    /\ ServeMode
    /\ pc = "serve_loop"
    /\ nLines = 1
    /\ nGet = 1
    /\ Len(stdout) = 1
    /\ cur # PyNone
    /\ response # PyNone

\* the container selector the configuration names: the value of the first
\* alias, in priority order, that is non-empty, replaced by its selector
\* sub-field (empty when missing) if that value is an object; no selector at
\* all when no alias is non-empty
NamedContainer(sel) ==
    IF PresentAliases(sel) = <<>> THEN PyStr("")
    ELSE LET chosen == sel[Head(PresentAliases(sel))]
         IN  IF chosen.t = "dict"
             THEN (IF "selector" \in DOMAIN chosen.v THEN chosen.v["selector"] ELSE PyStr(""))
             ELSE chosen

\* C18: for the configuration of every scrape call, the container selector
\* that extraction uses is the one named by the first non-empty alias among
\* productContainer, container, product_container; when that alias is an
\* object with no selector or an empty one, extraction has no container and
\* yields no item, even if a lower-priority alias names a usable container.
C18_ContainerResolution ==
    [][ (ScrapeReturns /\ cur.selectors.t = "dict") =>
          /\ Truthy(NamedContainer(cur.selectors.v)) =>
                ContainerSel(cur.selectors.v) = NamedContainer(cur.selectors.v)
          /\ ~Truthy(NamedContainer(cur.selectors.v)) =>
                /\ ~Truthy(ContainerSel(cur.selectors.v))
                /\ (FetchedOk(response') /\ ~BlockedBody(response'.text)) =>
                       /\ ExtractedFrom(response').items = <<>>
                       /\ ~ExtractedFrom(response').raised
                       /\ Last(stdout').count = 0
          /\ (/\ FetchedOk(response')
              /\ ~BlockedBody(response'.text)
              /\ NamedContainer(cur.selectors.v) = PyStr(".item")
              /\ "name" \in DOMAIN cur.selectors.v
              /\ cur.selectors.v["name"] = PyStr(".title")
              /\ response'.soup = GoodCards(Len(response'.soup))) =>
                 ExtractedFrom(response').items =
                     [i \in 1..Len(response'.soup) |-> BuildItem(GoodCard, cur.selectors.v)] ]_vars

C18_Witness ==
    /\ pc = "done"
    /\ nGet = 1
    /\ cur.selectors = SelSecondAlias
    /\ FetchedOk(response)
    /\ ~BlockedBody(response.text)
    /\ Len(response.soup) = 2
    /\ Last(stdout).count = 2

\* C19 (as stated): whatever the shapes of the entries of the selector
\* configuration, container aliases included, a fetch that succeeded and was
\* not blocked is classified by the number of extracted items alone: the
\* result is no_items_found, below_target or full success, never parse_error.
C19_SelectorsNeverRaise ==
    [][ (/\ ScrapeReturns
         /\ FetchedOk(response')
         /\ ~BlockedBody(response'.text)
         /\ cur.selectors.t = "dict"
         /\ cur.target_count.t = "int") =>
            /\ ~BeginsWith(Last(stdout').reason, "parse_error: ")
            /\ \/ Last(stdout').reason = PyNone
               \/ BeginsWith(Last(stdout').reason, "no_items_found")
               \/ BeginsWith(Last(stdout').reason, "below_target_") ]_vars

\* the argument decodes to a request object that holds url and selectors
HasUrlAndSelectors(text) ==
    /\ text.t = "json"
    /\ text.v.t = "dict"
    /\ "url" \in DOMAIN text.v.v
    /\ "selectors" \in DOMAIN text.v.v

\* single-shot mode and persistent mode treat the request text alike: both
\* call scrape, with the same arguments, and the response single-shot mode
\* printed is the one persistent mode prints for the same fetch outcome
ModesAgreeOn(text) ==
    LET s == ServeLine(text)
        m == MainArg(text)
    IN  /\ s.op = "scrape" <=> m.op = "scrape"
        /\ s.op = "scrape" => s.args = m.args
        /\ pc = "main_scrape" => (s.op = "scrape" /\ cur = s.args)
        /\ pc = "done" =>
              /\ s.op = "scrape"
              /\ nGet = 1
              /\ stdout = <<scrape(s.args.url, s.args.selectors,
                                   s.args.target_count, response).result>>

\* C20 (as stated): for every request object that holds url and selectors,
\* once single-shot mode has decoded it, single-shot mode attempts a fetch exactly when persistent mode does, and
\* for the same fetch outcome prints the response persistent mode prints.
C20_ModesAgree ==
    (SingleMode /\ pc # "main" /\ HasUrlAndSelectors(argv[1])) => ModesAgreeOn(argv[1])

\* C20 (amended): the same, for request objects whose url is non-empty and
\* whose command is not shutdown.
C20_ModesAgreeOnFetchedRequests ==
    (/\ SingleMode
     /\ pc # "main"
     /\ HasUrlAndSelectors(argv[1])
     /\ ~EmptyValue(argv[1].v.v["url"])
     /\ ~("command" \in DOMAIN argv[1].v.v /\ argv[1].v.v["command"] = PyStr("shutdown")))
        => ModesAgreeOn(argv[1])

C20_Witness ==
    /\ SingleMode
    /\ pc = "done"
    /\ HasUrlAndSelectors(argv[1])
    /\ "targetCount" \notin DOMAIN argv[1].v.v
    /\ nGet = 1
    /\ FetchedOk(response)
    /\ Len(response.soup) = MaxCards
    /\ Last(stdout).reason = FStr(<<"below_target_", MaxCards, "/", DefaultTargetCount>>)

====
